---------------------------- MODULE Spec2Model ----------------------------
(***************************************************************************)
(* g2b.py: GFF3 to BED-like conversion.  Text is modelled as a sequence of *)
(* one-character strings, so that strip, split, join, percent-decoding,    *)
(* the column regular expression and the sort order of keys are computed   *)
(* on characters, as the program computes them.                            *)
(***************************************************************************)
EXTENDS Integers, Sequences, FiniteSets, TLC

VARIABLES
    pc,              \* position of the running function / of main
    attributes_str,  \* parse_attributes: argument
    attributes,      \* parse_attributes: returned OrderedDict, a sequence of <<key, value>>
    filter_str,      \* parse_filter_argument: argument
    parsed,          \* parse_filter_argument: returned tuple, or <<"ValueError">>
    row,             \* passes_filters: argument row (list of column values)
    filters,         \* list of parsed filter tuples (passes_filters argument; main's filters)
    passed,          \* passes_filters: returned boolean
    discovered,      \* keys in the order in which rows present them to all_keys.update
    all_keys,        \* set of attribute keys (collect_all_attribute_keys / order_attribute_keys)
    ordered_keys,    \* order_attribute_keys: returned list
    input_exists,    \* os.path.exists(args.input)
    infile,          \* the lines of the input file, without their line terminators
    args_filters,    \* args.filters: <<>> when no -f was given, else the list of -f strings
    attribute_keys,  \* convert_gff_to_bed: the vocabulary returned by the first pass
    line_num,        \* number of input lines consumed by the pass in progress
    outfile,         \* the output file: <<>> while it does not exist, else <<writes>>
    lines_written,   \* convert_gff_to_bed: lines_written
    exit_status,     \* process exit status (-1 while running)
    stdout,          \* messages printed on standard output
    stderr,          \* messages printed on standard error
    input_read,      \* TRUE once the input file has been opened for reading
    collected,       \* history: line numbers whose keys the first pass collected
    emitted          \* history: line numbers for which the second pass wrote a row

vars == <<pc, attributes_str, attributes, filter_str, parsed, row, filters, passed,
          discovered, all_keys, ordered_keys, input_exists, infile, args_filters,
          attribute_keys, line_num, outfile, lines_written, exit_status, stdout,
          stderr, input_read, collected, emitted>>

codecVars  == <<attributes_str, attributes>>
argVars    == <<filter_str, parsed>>
evalVars   == <<row, passed>>
orderVars  == <<discovered, ordered_keys>>
mainVars   == <<input_exists, infile, args_filters, attribute_keys, line_num, outfile,
                lines_written, exit_status, stdout, stderr, input_read, collected,
                emitted>>

(***************************************************************************)
(* Bounds of the model.                                                    *)
(***************************************************************************)
MaxSegments == 3   \* ';'-separated segments of a generated attribute string
MaxTokens   == 4   \* tokens of a generated filter expression
MaxFilters  == 2   \* predicates of a generated filter list
MaxKeys     == 4   \* keys presented to order_attribute_keys
MaxLines    == 2   \* lines of a generated input file

(***************************************************************************)
(* Characters.  Printable lists the ASCII characters 32..126 in code point *)
(* order; TAB and NL are 9 and 10.  Python compares strings by code point. *)
(* The double quote, the backslash and the backtick, which no input of the *)
(* model uses, stand in the table under their names.                       *)
(***************************************************************************)
TAB == "\t"
NL  == "\n"
Printable ==
    <<" ", "!", "DQUOTE", "#", "$", "%", "&", "'", "(", ")", "*", "+", ",", "-", ".", "/",
      "0", "1", "2", "3", "4", "5", "6", "7", "8", "9", ":", ";", "<", "=", ">", "?",
      "@", "A", "B", "C", "D", "E", "F", "G", "H", "I", "J", "K", "L", "M", "N", "O",
      "P", "Q", "R", "S", "T", "U", "V", "W", "X", "Y", "Z", "[", "BACKSLASH", "]", "^", "_",
      "BACKTICK", "a", "b", "c", "d", "e", "f", "g", "h", "i", "j", "k", "l", "m", "n", "o",
      "p", "q", "r", "s", "t", "u", "v", "w", "x", "y", "z", "{", "|", "}", "~">>
Alphabet == {Printable[i] : i \in 1..Len(Printable)} \cup {TAB, NL}
OrdTable ==
    [c \in Alphabet |->
        IF c = TAB THEN 9
        ELSE IF c = NL THEN 10
        ELSE 31 + (CHOOSE i \in 1..Len(Printable) : Printable[i] = c)]
ord(c) == OrdTable[c]
chr(n) == IF n = 9 THEN TAB ELSE IF n = 10 THEN NL ELSE Printable[n - 31]

Digits == {"0", "1", "2", "3", "4", "5", "6", "7", "8", "9"}
digit(c) == ord(c) - 48
HexDigits == Digits \cup {"A", "B", "C", "D", "E", "F", "a", "b", "c", "d", "e", "f"}
hexval(c) ==
    IF c \in Digits THEN ord(c) - 48
    ELSE IF ord(c) >= 97 THEN ord(c) - 87 ELSE ord(c) - 55
\* the characters str.strip() removes, among those of the alphabet
Whitespace == {" ", TAB, NL}

Range(s) == {s[i] : i \in 1..Len(s)}
Min(S) == CHOOSE x \in S : \A y \in S : x <= y
Max(S) == CHOOSE x \in S : \A y \in S : x >= y

(***************************************************************************)
(* str methods.                                                            *)
(***************************************************************************)
RECURSIVE lstrip(_)
lstrip(s) == IF s # <<>> /\ Head(s) \in Whitespace THEN lstrip(Tail(s)) ELSE s
RECURSIVE rstrip(_)
rstrip(s) ==
    IF s # <<>> /\ s[Len(s)] \in Whitespace THEN rstrip(SubSeq(s, 1, Len(s) - 1)) ELSE s
strip(s) == rstrip(lstrip(s))

\* positions at which sub occurs in s
occurrences(s, sub) ==
    {i \in 1..(Len(s) - Len(sub) + 1) : SubSeq(s, i, i + Len(sub) - 1) = sub}
\* sub in s
contains(s, sub) == occurrences(s, sub) # {}
\* s.find(sub), 1-based; 0 when absent
find(s, sub) == IF contains(s, sub) THEN Min(occurrences(s, sub)) ELSE 0
startswith(s, sub) == Len(sub) <= Len(s) /\ SubSeq(s, 1, Len(sub)) = sub

\* s.split(sep)
RECURSIVE split(_, _)
split(s, sep) ==
    IF ~contains(s, sep) THEN <<s>>
    ELSE LET i == find(s, sep)
         IN  <<SubSeq(s, 1, i - 1)>> \o split(SubSeq(s, i + Len(sep), Len(s)), sep)
\* s.split(sep, 1)
split1(s, sep) ==
    IF ~contains(s, sep) THEN <<s>>
    ELSE LET i == find(s, sep)
         IN  <<SubSeq(s, 1, i - 1), SubSeq(s, i + Len(sep), Len(s))>>
\* sep.join(parts)
RECURSIVE join(_, _)
join(sep, parts) ==
    IF parts = <<>> THEN <<>>
    ELSE IF Len(parts) = 1 THEN parts[1]
    ELSE parts[1] \o sep \o join(sep, Tail(parts))

\* s.replace(old, empty) for a non-empty old
RECURSIVE remove(_, _)
remove(s, old) ==
    IF ~contains(s, old) THEN s
    ELSE LET i == find(s, old)
         IN  SubSeq(s, 1, i - 1) \o remove(SubSeq(s, i + Len(old), Len(s)), old)

(***************************************************************************)
(* urllib.parse.unquote on ASCII text: every '%' followed by two hex       *)
(* digits becomes the character with that code, any other '%' stays.       *)
(* Codes outside the alphabet (control characters, bytes >= 0x7F) are not  *)
(* generated by the inputs of this model.                                  *)
(***************************************************************************)
RECURSIVE unquote(_)
unquote(s) ==
    IF s = <<>> THEN <<>>
    ELSE IF s[1] = "%" /\ Len(s) >= 3 /\ s[2] \in HexDigits /\ s[3] \in HexDigits
         THEN <<chr(16 * hexval(s[2]) + hexval(s[3]))>> \o unquote(SubSeq(s, 4, Len(s)))
         ELSE <<s[1]>> \o unquote(Tail(s))

(***************************************************************************)
(* OrderedDict, as a sequence of <<key, value>> pairs with distinct keys.  *)
(***************************************************************************)
keys(d) == {d[i][1] : i \in 1..Len(d)}
get(d, k, default) ==
    IF k \in keys(d) THEN d[CHOOSE i \in 1..Len(d) : d[i][1] = k][2] ELSE default
\* faulty variant: the first assignment of a key wins
setitem_keep_first(d, k, v) ==
    IF k \in keys(d) THEN d ELSE Append(d, <<k, v>>)
\* d[k] = v: a new key is appended, an existing key keeps its position
setitem(d, k, v) ==
    IF k \in keys(d)
    THEN [i \in 1..Len(d) |-> IF d[i][1] = k THEN <<k, v>> ELSE d[i]]
    ELSE Append(d, <<k, v>>)

(***************************************************************************)
(* parse_attributes                                                        *)
(***************************************************************************)
RECURSIVE parse_items(_, _)
parse_items(items, d) ==
    IF items = <<>> THEN d
    ELSE LET item == strip(Head(items))
         IN  IF item = <<>> THEN parse_items(Tail(items), d)
             ELSE IF contains(item, <<"=">>)
                  THEN LET kv == split1(item, <<"=">>)
                       IN  parse_items(Tail(items), setitem(d, kv[1], unquote(kv[2])))
                  ELSE parse_items(Tail(items), d)
parse_attributes(s) ==
    IF s = <<>> \/ s = <<".">> THEN <<>>
    ELSE parse_items(split(s, <<";">>), <<>>)

(***************************************************************************)
(* int(text) and str(number)                                               *)
(***************************************************************************)
\* the text int() converts after trimming: the digits behind an optional sign
int_body(s) ==
    LET t == strip(s)
    IN  IF t # <<>> /\ t[1] \in {"+", "-"} THEN Tail(t) ELSE t
\* int(s) succeeds: digits, with single underscores between digits
int_valid(s) ==
    LET b == int_body(s)
    IN  /\ b # <<>>
        /\ \A i \in 1..Len(b) : b[i] \in Digits \cup {"_"}
        /\ b[1] # "_" /\ b[Len(b)] # "_"
        /\ \A i \in 1..(Len(b) - 1) : ~(b[i] = "_" /\ b[i + 1] = "_")
RECURSIVE digits_value(_, _)
digits_value(b, acc) ==
    IF b = <<>> THEN acc
    ELSE digits_value(Tail(b), IF Head(b) = "_" THEN acc ELSE 10 * acc + digit(Head(b)))
int(s) ==
    LET t == strip(s)
        v == digits_value(int_body(s), 0)
    IN  IF t[1] = "-" THEN 0 - v ELSE v
RECURSIVE str_nat(_)
str_nat(n) ==
    IF n < 10 THEN <<chr(48 + n)>> ELSE str_nat(n \div 10) \o <<chr(48 + (n % 10))>>
str(n) == IF n < 0 THEN <<"-">> \o str_nat(0 - n) ELSE str_nat(n)

(***************************************************************************)
(* parse_filter_argument                                                   *)
(***************************************************************************)
\* re.match(r'^column[0-8]$', key): '$' matches at the end of the key and
\* also just before a newline that ends the key
column_re_match(key) ==
    \E d \in {"0", "1", "2", "3", "4", "5", "6", "7", "8"} :
        \/ key = <<"c", "o", "l", "u", "m", "n">> \o <<d>>
        \/ key = <<"c", "o", "l", "u", "m", "n">> \o <<d, NL>>
\* [v.strip() for v in value.split(',')]
strip_all(parts) == [i \in 1..Len(parts) |-> strip(parts[i])]
make_filter(kv, operator) ==
    LET key == kv[1]
        values == strip_all(split(kv[2], <<",">>))
    IN  IF column_re_match(key)
        THEN <<"column", int(remove(key, <<"c", "o", "l", "u", "m", "n">>)), operator, values>>
        ELSE <<"attribute", key, operator, values>>
parse_filter_argument(s) ==
    IF contains(s, <<"!", "=">>) THEN make_filter(split1(s, <<"!", "=">>), "!=")
    ELSE IF contains(s, <<"=">>) THEN make_filter(split1(s, <<"=">>), "=")
    ELSE <<"ValueError">>

(***************************************************************************)
(* passes_filters                                                          *)
(***************************************************************************)
\* any(x == v for v in values)
any_equal(x, values) == \E i \in 1..Len(values) : x = values[i]
\* faulty variant: a '!=' filter on an attribute rejects a row that lacks the key
filter_rejects_absent(r, f) ==
    IF f[1] = "column"
    THEN IF f[2] >= Len(r) THEN TRUE
         ELSE IF f[3] = "=" THEN ~any_equal(r[f[2] + 1], f[4])
         ELSE IF f[3] = "!=" THEN any_equal(r[f[2] + 1], f[4])
         ELSE FALSE
    ELSE IF f[1] = "attribute"
    THEN LET attrs == parse_attributes(IF Len(r) > 8 THEN r[9] ELSE <<>>)
         IN  IF f[3] = "=" THEN f[2] \notin keys(attrs) \/ ~any_equal(get(attrs, f[2], <<>>), f[4])
             ELSE IF f[3] = "!=" THEN f[2] \notin keys(attrs) \/ any_equal(get(attrs, f[2], <<>>), f[4])
             ELSE FALSE
    ELSE FALSE
\* one iteration of the loop: TRUE when the filter makes passes_filters return False
filter_rejects(r, f) ==
    IF f[1] = "column"
    THEN IF f[2] >= Len(r) THEN TRUE
         ELSE IF f[3] = "=" THEN ~any_equal(r[f[2] + 1], f[4])
         ELSE IF f[3] = "!=" THEN any_equal(r[f[2] + 1], f[4])
         ELSE FALSE
    ELSE IF f[1] = "attribute"
    THEN LET attrs == parse_attributes(IF Len(r) > 8 THEN r[9] ELSE <<>>)
         IN  IF f[3] = "=" THEN f[2] \notin keys(attrs) \/ ~any_equal(get(attrs, f[2], <<>>), f[4])
             ELSE IF f[3] = "!=" THEN f[2] \in keys(attrs) /\ any_equal(get(attrs, f[2], <<>>), f[4])
             ELSE FALSE
    ELSE FALSE
RECURSIVE passes_filters(_, _)
passes_filters(r, fs) ==
    IF fs = <<>> THEN TRUE
    ELSE IF filter_rejects(r, Head(fs)) THEN FALSE
    ELSE passes_filters(r, Tail(fs))

(***************************************************************************)
(* order_attribute_keys                                                    *)
(***************************************************************************)
priority_attrs ==
    << <<"g", "e", "n", "e">>, <<"d", "e", "s", "c", "r", "i", "p", "t", "i", "o", "n">>, <<"g", "e", "n", "e", "_", "n", "a", "m", "e">>, <<"g", "e", "n", "e", "_", "s", "y", "n", "o", "n", "y", "m">>, <<"g", "e", "n", "e", "_", "b", "i", "o", "t", "y", "p", "e">>,
       <<"I", "D">>, <<"d", "b", "_", "x", "r", "e", "f">>, <<"e", "x", "t", "r", "a", "_", "c", "o", "p", "y", "_", "n", "u", "m", "b", "e", "r">>, <<"c", "o", "p", "y", "_", "n", "u", "m", "_", "I", "D">> >>
\* a < b on Python strings: by code point, a proper prefix first
str_less(a, b) ==
    LET n == Min({Len(a), Len(b)})
        d == {i \in 1..n : a[i] # b[i]}
    IN  IF d = {} THEN Len(a) < Len(b) ELSE ord(a[Min(d)]) < ord(b[Min(d)])
\* insertion of k into a sorted list, behind the elements that are not greater
RECURSIVE insort(_, _)
insort(s, k) ==
    IF s = <<>> THEN <<k>>
    ELSE IF str_less(k, Head(s)) THEN <<k>> \o s
    ELSE <<Head(s)>> \o insort(Tail(s), k)
\* sorted(list): a stable sort of the list
RECURSIVE sorted(_)
sorted(s) == IF s = <<>> THEN <<>> ELSE insort(sorted(SubSeq(s, 1, Len(s) - 1)), s[Len(s)])
in_priority(k) == \E i \in 1..Len(priority_attrs) : priority_attrs[i] = k
in_iter(iter, k) == \E i \in 1..Len(iter) : iter[i] = k
\* faulty variant: the remaining keys keep the iteration order of the set
order_attribute_keys_unsorted(iter) ==
    SelectSeq(priority_attrs, LAMBDA a : in_iter(iter, a))
        \o SelectSeq(iter, LAMBDA k : ~in_priority(k))
\* iter is all_keys in the order in which the set iterates
order_attribute_keys(iter) ==
    SelectSeq(priority_attrs, LAMBDA a : in_iter(iter, a))
        \o sorted(SelectSeq(iter, LAMBDA k : ~in_priority(k)))
\* the orders in which a set can iterate
RECURSIVE iterations(_)
iterations(S) ==
    IF S = {} THEN {<<>>}
    ELSE UNION {{<<x>> \o p : p \in iterations(S \ {x})} : x \in S}

(***************************************************************************)
(* Values of the variables a specification does not use.                   *)
(***************************************************************************)
SeqsUpTo(S, n) == UNION {[1..k -> S] : k \in 0..n}

IdleCodec == attributes_str = <<>> /\ attributes = <<>>
IdleArg   == filter_str = <<>> /\ parsed = <<>>
IdleEval  == row = <<>> /\ passed = FALSE
IdleOrder == discovered = <<>> /\ ordered_keys = <<>>
IdleMain  ==
    /\ input_exists = FALSE /\ infile = <<>> /\ args_filters = <<>>
    /\ attribute_keys = <<>> /\ line_num = 0 /\ outfile = <<>> /\ lines_written = 0
    /\ exit_status = -1 /\ stdout = <<>> /\ stderr = <<>> /\ input_read = FALSE
    /\ collected = {} /\ emitted = <<>>

(***************************************************************************)
(* SpecAttributes: parse_attributes applied to attribute strings made of   *)
(* up to MaxSegments segments joined by ';'.                               *)
(***************************************************************************)
Segments ==
    { <<>>, <<" ">>, <<".">>, <<"a">>, <<"a", "=", "1">>, <<" ", "a", "=", "%", "4", "1", " ">>, <<"b", "=", "a", "=", "1">>, <<"=", "x">>,
      <<"%", "4", "1", "=", "%", "3", "B">>, <<"b", "=", " ", "%", "z", "z", "%", "4">> }
AttrStrings == {join(<<";">>, segs) : segs \in SeqsUpTo(Segments, MaxSegments)}

InitAttributes ==
    /\ pc = "parse_attributes"
    /\ attributes_str \in AttrStrings
    /\ attributes = <<>>
    /\ IdleArg /\ IdleEval /\ IdleOrder /\ IdleMain
    /\ filters = <<>> /\ all_keys = {}
ParseAttributes ==
    /\ pc = "parse_attributes"
    /\ attributes' = parse_attributes(attributes_str)
    /\ pc' = "return"
    /\ UNCHANGED <<attributes_str, argVars, evalVars, orderVars, mainVars, filters, all_keys>>
NextAttributes == ParseAttributes
SpecAttributes == InitAttributes /\ [][NextAttributes]_vars

(***************************************************************************)
(* SpecFilterArg: parse_filter_argument applied to filter expressions made *)
(* of up to MaxTokens tokens.                                              *)
(***************************************************************************)
Tokens ==
    { <<"c", "o", "l", "u", "m", "n">>, <<"8">>, <<"9">>, <<"a">>, <<"=">>, <<"!", "=">>, <<",">>, <<" ">>, <<NL>> }
FilterStrings == {join(<<>>, toks) : toks \in SeqsUpTo(Tokens, MaxTokens)}

InitFilterArg ==
    /\ pc = "parse_filter_argument"
    /\ filter_str \in FilterStrings
    /\ parsed = <<>>
    /\ IdleCodec /\ IdleEval /\ IdleOrder /\ IdleMain
    /\ filters = <<>> /\ all_keys = {}
ParseFilterArgument ==
    /\ pc = "parse_filter_argument"
    /\ parsed' = parse_filter_argument(filter_str)
    /\ pc' = "return"
    /\ UNCHANGED <<filter_str, codecVars, evalVars, orderVars, mainVars, filters, all_keys>>
NextFilterArg == ParseFilterArgument
SpecFilterArg == InitFilterArg /\ [][NextFilterArg]_vars

(***************************************************************************)
(* SpecFilters: passes_filters applied to rows and lists of up to          *)
(* MaxFilters parsed filters.                                              *)
(***************************************************************************)
RowTypes   == { <<"g", "e", "n", "e">>, <<"e", "x", "o", "n">> }
RowStrands == { <<"+">>, <<"-">> }
RowAttrs   == { <<>>, <<"k", "=", "v">>, <<"k", "=", "w", ";", "j", "=", "v">>, <<"j", "=", "%", "7", "6">> }
FullRows ==
    { << <<"c">>, <<"s">>, t, <<"5">>, <<"9">>, <<".">>, d, <<"0">>, a >> :
        t \in RowTypes, d \in RowStrands, a \in RowAttrs }
\* rows shorter than nine columns, which passes_filters accepts as arguments
ShortRows == {SubSeq(r, 1, n) : r \in FullRows, n \in {0, 3}}
Rows == FullRows \cup ShortRows
Predicates ==
    { <<"column", 2, "=", << <<"g", "e", "n", "e">> >> >>,
      <<"column", 2, "!=", << <<"g", "e", "n", "e">>, <<"e", "x", "o", "n">> >> >>,
      <<"column", 6, "!=", << <<"-">> >> >>,
      <<"column", 8, "=", << <<>>, <<"k", "=", "v">> >> >>,
      <<"column", 8, "!=", << <<"k", "=", "v">> >> >>,
      <<"attribute", <<"k">>, "=", << <<"v">>, <<"w">> >> >>,
      <<"attribute", <<"k">>, "!=", << <<"v">> >> >>,
      <<"attribute", <<"j">>, "=", << <<"v">> >> >>,
      <<"attribute", <<"j">>, "!=", << <<"w">>, <<"v">> >> >> }

InitFilters ==
    /\ pc = "passes_filters"
    /\ row \in Rows
    /\ filters \in SeqsUpTo(Predicates, MaxFilters)
    /\ passed = FALSE
    /\ IdleCodec /\ IdleArg /\ IdleOrder /\ IdleMain
    /\ all_keys = {}
PassesFilters ==
    /\ pc = "passes_filters"
    /\ passed' = passes_filters(row, filters)
    /\ pc' = "return"
    /\ UNCHANGED <<row, filters, codecVars, argVars, orderVars, mainVars, all_keys>>
NextFilters == PassesFilters
SpecFilters == InitFilters /\ [][NextFilters]_vars

(***************************************************************************)
(* SpecOrder: up to MaxKeys keys are presented to all_keys.update in some  *)
(* order, then order_attribute_keys orders the set, which iterates in an   *)
(* arbitrary order.                                                        *)
(***************************************************************************)
KeyUniverse == { <<"g", "e", "n", "e">>, <<"I", "D">>, <<"d", "b", "_", "x", "r", "e", "f">>, <<"N", "a", "m", "e">>, <<"a">>, <<"a", "b">> }

InitOrder ==
    /\ pc = "collect"
    /\ discovered \in SeqsUpTo(KeyUniverse, MaxKeys)
    /\ all_keys = {}
    /\ ordered_keys = <<>>
    /\ IdleCodec /\ IdleArg /\ IdleEval /\ IdleMain
    /\ filters = <<>>
\* all_keys.update(attributes.keys()) for every surviving row
CollectKeys ==
    /\ pc = "collect"
    /\ all_keys' = Range(discovered)
    /\ pc' = "order"
    /\ UNCHANGED <<discovered, ordered_keys, codecVars, argVars, evalVars, mainVars, filters>>
OrderKeys ==
    /\ pc = "order"
    /\ \E iter \in iterations(all_keys) : ordered_keys' = order_attribute_keys(iter)
    /\ pc' = "return"
    /\ UNCHANGED <<discovered, all_keys, codecVars, argVars, evalVars, mainVars, filters>>
NextOrder == CollectKeys \/ OrderKeys
SpecOrder == InitOrder /\ [][NextOrder]_vars

(***************************************************************************)
(* convert_gff_to_bed and main.                                            *)
(* pc runs main -> parse_filters -> first_pass -> collect -> open_output   *)
(* -> convert -> exit.  Of the messages on standard error the warnings and *)
(* the errors are modelled, each as <<text, number>>.                      *)
(***************************************************************************)
default_filter_strs == << <<"c", "o", "l", "u", "m", "n", "2", "=", "g", "e", "n", "e">>, <<"g", "e", "n", "e", "_", "b", "i", "o", "t", "y", "p", "e", "=", "p", "r", "o", "t", "e", "i", "n", "_", "c", "o", "d", "i", "n", "g">> >>
\* filter_strs of main
filter_strs == IF args_filters = <<>> THEN default_filter_strs ELSE args_filters

\* line.strip().split('\t')
parts_of(line) == split(strip(line), <<TAB>>)
\* the three 'continue' tests of both passes, in the order of the code
skips(line, fs) ==
    LET l == strip(line)
    IN  \/ l = <<>>
        \/ startswith(l, <<"#">>)
        \/ Len(split(l, <<TAB>>)) < 9
        \/ ~passes_filters(split(l, <<TAB>>), fs)
\* the header text written to the output
header_line(attr_keys) ==
    <<"#">> \o join(<<TAB>>,
        << <<"c", "h", "r", "o", "m">>, <<"s", "t", "a", "r", "t">>, <<"e", "n", "d">>, <<"s", "o", "u", "r", "c", "e">>, <<"t", "y", "p", "e">>, <<"s", "c", "o", "r", "e">>, <<"s", "t", "r", "a", "n", "d">>,
           <<"p", "h", "a", "s", "e">> >> \o attr_keys) \o <<NL>>
\* attributes.get(key, empty) for every key of attribute_keys
attribute_values(attrs, attr_keys) ==
    [i \in 1..Len(attr_keys) |-> get(attrs, attr_keys[i], <<>>)]
\* faulty variant: the start coordinate is copied without the shift to 0-based
output_parts_unshifted(parts, attr_keys) ==
    <<parts[1], str(int(parts[4])), parts[5], parts[2], parts[3], parts[6], parts[7], parts[8]>>
        \o attribute_values(parse_attributes(parts[9]), attr_keys)
\* output_parts of a row whose start int() accepts
output_parts(parts, attr_keys) ==
    <<parts[1], str(int(parts[4]) - 1), parts[5], parts[2], parts[3], parts[6], parts[7],
      parts[8]>>
        \o attribute_values(parse_attributes(parts[9]), attr_keys)
\* the text of one data row
row_line(parts, attr_keys) == join(<<TAB>>, output_parts(parts, attr_keys)) \o <<NL>>

(***************************************************************************)
(* Inputs of a run.                                                        *)
(***************************************************************************)
gff(type, start, attrs) ==
    join(<<TAB>>, << <<"c">>, <<"s">>, type, start, <<"9">>, <<".">>, <<"+">>, <<"0">>, attrs >>)
InputLines ==
    { <<>>,                                                   \* blank
      <<" ", "#", "c">>,                                                \* comment behind a space
      <<"c", "\t", "s", "\t", "g", "e", "n", "e">>,                                         \* three columns
      gff(<<"g", "e", "n", "e">>, <<"5">>, <<"I", "D", "=", "g", ";", "g", "e", "n", "e", "_", "b", "i", "o", "t", "y", "p", "e", "=", "p", "r", "o", "t", "e", "i", "n", "_", "c", "o", "d", "i", "n", "g">>),
      gff(<<"g", "e", "n", "e">>, <<"x">>, <<"g", "e", "n", "e", "_", "b", "i", "o", "t", "y", "p", "e", "=", "p", "r", "o", "t", "e", "i", "n", "_", "c", "o", "d", "i", "n", "g">>), \* start is no integer
      gff(<<"e", "x", "o", "n">>, <<"+", "0", "7">>, <<"k", "=", "v", ";", "N", "a", "m", "e", "=", "n">>),
      gff(<<"g", "e", "n", "e">>, <<"1">>, <<"b", "=", "%", "0", "9", ";", "g", "e", "n", "e", "_", "b", "i", "o", "t", "y", "p", "e", "=", "p", "r", "o", "t", "e", "i", "n", "_", "c", "o", "d", "i", "n", "g">>), \* value decodes to a tab
      gff(<<"g", "e", "n", "e">>, <<"5">>, <<>>),                            \* empty ninth column
      gff(<<"g", "e", "n", "e">>, <<"0">>, <<"a", "=", "1", ";", "a", "=", "2", ";", "g", "e", "n", "e", "=", "G">>),
      <<" ">> \o gff(<<"g", "e", "n", "e">>, <<"5">>, <<"k", "=", "w", " ">>) }           \* spaces around the line
ArgFilterLists ==
    { <<>>,                                                   \* no -f: the default filters
      << <<"c", "o", "l", "u", "m", "n", "2", "=", "g", "e", "n", "e">> >>,
      << <<"c", "o", "l", "u", "m", "n", "2", "=", "g", "e", "n", "e", ",", "e", "x", "o", "n">>, <<"k", "!", "=", "w">> >>,
      << <<"b", "a", "d">> >>,                                          \* no '='
      << <<"c", "o", "l", "u", "m", "n", "2", "=", "g", "e", "n", "e">>, <<"b", "a", "d">> >> }

Init ==
    /\ pc = "main"
    /\ input_exists \in BOOLEAN
    /\ infile \in (IF input_exists THEN SeqsUpTo(InputLines, MaxLines) ELSE {<<>>})
    /\ args_filters \in ArgFilterLists
    /\ filters = <<>> /\ all_keys = {} /\ attribute_keys = <<>>
    /\ line_num = 0 /\ outfile = <<>> /\ lines_written = 0
    /\ exit_status = -1 /\ stdout = <<>> /\ stderr = <<>> /\ input_read = FALSE
    /\ collected = {} /\ emitted = <<>>
    /\ IdleCodec /\ IdleArg /\ IdleEval /\ IdleOrder

\* main: os.path.exists(args.input)
CheckInput ==
    /\ pc = "main"
    /\ IF input_exists
       THEN /\ pc' = "parse_filters"
            /\ UNCHANGED <<exit_status, stderr>>
       ELSE /\ pc' = "exit"
            /\ exit_status' = 1
            /\ stderr' = Append(stderr, <<"Error: Input file not found", 0>>)
    /\ UNCHANGED <<codecVars, argVars, evalVars, orderVars, filters, all_keys, input_exists,
                   infile, args_filters, attribute_keys, line_num, outfile, lines_written,
                   stdout, input_read, collected, emitted>>

\* index of the first filter string parse_filter_argument rejects, 0 when none
first_invalid(strs) ==
    LET bad == {i \in 1..Len(strs) : parse_filter_argument(strs[i]) = <<"ValueError">>}
    IN  IF bad = {} THEN 0 ELSE Min(bad)
\* main: the loop that parses filter_strs, and its except clause
ParseFilters ==
    /\ pc = "parse_filters"
    /\ LET n == first_invalid(filter_strs)
       IN  IF n = 0
           THEN /\ filters' = [i \in 1..Len(filter_strs) |->
                                  parse_filter_argument(filter_strs[i])]
                /\ pc' = "first_pass"
                /\ UNCHANGED <<exit_status, stderr>>
           ELSE /\ filters' = [i \in 1..(n - 1) |-> parse_filter_argument(filter_strs[i])]
                /\ pc' = "exit"
                /\ exit_status' = 1
                /\ stderr' = Append(stderr, <<"Error: Invalid filter format", n>>)
    /\ UNCHANGED <<codecVars, argVars, evalVars, orderVars, all_keys, input_exists, infile,
                   args_filters, attribute_keys, line_num, outfile, lines_written, stdout,
                   input_read, collected, emitted>>

\* faulty variant: the output file is opened for writing before the first pass
FirstPassOpen_creates_output ==
    /\ pc = "first_pass"
    /\ all_keys' = {}
    /\ input_read' = TRUE
    /\ line_num' = 0
    /\ outfile' = << <<>> >>
    /\ pc' = "collect"
    /\ UNCHANGED <<codecVars, argVars, evalVars, orderVars, filters, input_exists, infile,
                   args_filters, attribute_keys, lines_written, exit_status,
                   stdout, stderr, collected, emitted>>
\* collect_all_attribute_keys: all_keys = set(), the input is opened
FirstPassOpen ==
    /\ pc = "first_pass"
    /\ all_keys' = {}
    /\ input_read' = TRUE
    /\ line_num' = 0
    /\ pc' = "collect"
    /\ UNCHANGED <<codecVars, argVars, evalVars, orderVars, filters, input_exists, infile,
                   args_filters, attribute_keys, outfile, lines_written, exit_status,
                   stdout, stderr, collected, emitted>>

\* collect_all_attribute_keys: one iteration of 'for line in f'
CollectLine ==
    /\ pc = "collect"
    /\ line_num < Len(infile)
    /\ line_num' = line_num + 1
    /\ LET line == infile[line_num + 1]
       IN  IF skips(line, filters)
           THEN UNCHANGED <<all_keys, collected>>
           ELSE /\ all_keys' = all_keys \cup keys(parse_attributes(parts_of(line)[9]))
                /\ collected' = collected \cup {line_num + 1}
    /\ UNCHANGED <<pc, codecVars, argVars, evalVars, orderVars, filters, input_exists, infile,
                   args_filters, attribute_keys, outfile, lines_written, exit_status,
                   stdout, stderr, input_read, emitted>>

\* collect_all_attribute_keys returns order_attribute_keys(all_keys);
\* convert_gff_to_bed warns when the list is empty
CollectEnd ==
    /\ pc = "collect"
    /\ line_num = Len(infile)
    /\ \E iter \in iterations(all_keys) : attribute_keys' = order_attribute_keys(iter)
    /\ stderr' = IF all_keys = {}
                 THEN Append(stderr, <<"Warning: No attribute keys found", 0>>)
                 ELSE stderr
    /\ pc' = "open_output"
    /\ UNCHANGED <<codecVars, argVars, evalVars, orderVars, filters, all_keys, input_exists,
                   infile, args_filters, line_num, outfile, lines_written, exit_status,
                   stdout, input_read, collected, emitted>>

\* convert_gff_to_bed: both files are opened and the header is written
OpenOutput ==
    /\ pc = "open_output"
    /\ outfile' = << <<header_line(attribute_keys)>> >>
    /\ lines_written' = 0
    /\ line_num' = 0
    /\ pc' = "convert"
    /\ UNCHANGED <<codecVars, argVars, evalVars, orderVars, filters, all_keys, input_exists,
                   infile, args_filters, attribute_keys, exit_status, stdout, stderr,
                   input_read, collected, emitted>>

\* convert_gff_to_bed: one iteration of 'for line_num, line in enumerate(infile, 1)'.
\* When int() raises, the with statement closes the output file with what was
\* written, both except clauses print and main exits with status 1.
ConvertLine ==
    /\ pc = "convert"
    /\ line_num < Len(infile)
    /\ line_num' = line_num + 1
    /\ LET line  == infile[line_num + 1]
           l     == strip(line)
           parts == split(l, <<TAB>>)
       IN  IF l = <<>> \/ startswith(l, <<"#">>)
           THEN UNCHANGED <<pc, outfile, lines_written, exit_status, stderr, emitted>>
           ELSE IF Len(parts) < 9
           THEN /\ stderr' = Append(stderr, <<"Warning: Line has fewer than 9 columns",
                                              line_num + 1>>)
                /\ UNCHANGED <<pc, outfile, lines_written, exit_status, emitted>>
           ELSE IF ~passes_filters(parts, filters)
           THEN UNCHANGED <<pc, outfile, lines_written, exit_status, stderr, emitted>>
           ELSE IF ~int_valid(parts[4])
           THEN /\ pc' = "exit"
                /\ exit_status' = 1
                /\ stderr' = stderr \o << <<"Error processing file", line_num + 1>>,
                                          <<"Error during conversion", line_num + 1>> >>
                /\ UNCHANGED <<outfile, lines_written, emitted>>
           ELSE /\ outfile' = <<Append(outfile[1], row_line(parts, attribute_keys))>>
                /\ lines_written' = lines_written + 1
                /\ emitted' = Append(emitted, line_num + 1)
                /\ UNCHANGED <<pc, exit_status, stderr>>
    /\ UNCHANGED <<codecVars, argVars, evalVars, orderVars, filters, all_keys, input_exists,
                   infile, args_filters, attribute_keys, stdout, input_read, collected>>

\* convert_gff_to_bed returns lines_written; main prints the success message
ConvertEnd ==
    /\ pc = "convert"
    /\ line_num = Len(infile)
    /\ stdout' = Append(stdout, <<"Conversion complete", lines_written>>)
    /\ exit_status' = 0
    /\ pc' = "exit"
    /\ UNCHANGED <<codecVars, argVars, evalVars, orderVars, filters, all_keys, input_exists,
                   infile, args_filters, attribute_keys, line_num, outfile, lines_written,
                   stderr, input_read, collected, emitted>>

Next ==
    \/ CheckInput
    \/ ParseFilters
    \/ FirstPassOpen
    \/ CollectLine
    \/ CollectEnd
    \/ OpenOutput
    \/ ConvertLine
    \/ ConvertEnd
Spec == Init /\ [][Next]_vars

(***************************************************************************)
(* Properties.                                                             *)
(***************************************************************************)
\* what has been written to the output file, one element per write call
written == IF outfile = <<>> THEN <<>> ELSE outfile[1]
\* a written line, without its terminator, split on the tab character
fields_of(w) == split(SubSeq(w, 1, Len(w) - 1), <<TAB>>)
\* position of key k in the vocabulary
key_index(k) == CHOOSE i \in 1..Len(attribute_keys) : attribute_keys[i] = k
\* the run was aborted by a start field that int() rejects
malformed_abort ==
    pc = "exit" /\ \E i \in 1..Len(stderr) : stderr[i][1] = "Error processing file"
\* the run was aborted before the conversion: no input file, or a filter without '='
early_abort ==
    pc = "exit" /\ \E i \in 1..Len(stderr) :
        stderr[i][1] \in {"Error: Input file not found", "Error: Invalid filter format"}

\* C1: the header and every data line written to the output have exactly
\* 8 + |vocabulary| fields when the written line is split on the tab character.
C1_ColumnCount ==
    \A i \in 1..Len(written) : Len(fields_of(written[i])) = 8 + Len(attribute_keys)

\* canonical decimal text: an optional '-', then digits without a leading zero
decimal_form(s) ==
    LET b == IF s # <<>> /\ s[1] = "-" THEN Tail(s) ELSE s
    IN  /\ b # <<>>
        /\ \A i \in 1..Len(b) : b[i] \in Digits
        /\ (Len(b) > 1 => b[1] # "0")
\* C2: for every emitted row whose start is an integer string S, the first eight
\* output fields are (chrom, S - 1 in decimal, end, source, type, score, strand,
\* phase), all but the start copied unchanged from the row.
C2_CoordinateLaw ==
    \A j \in 1..Len(emitted) :
        LET parts == parts_of(infile[emitted[j]])
            out   == fields_of(written[j + 1])
        IN  int_valid(parts[4]) =>
                /\ Len(out) >= 8
                /\ SubSeq(out, 1, 8) =
                       <<parts[1], str(int(parts[4]) - 1), parts[5], parts[2], parts[3],
                         parts[6], parts[7], parts[8]>>
                /\ decimal_form(out[2])
                /\ int(out[2]) = int(parts[4]) - 1
\* a row whose start "+07" was written as "6", and one whose start "0" became "-1"
C2_Witness ==
    /\ \E j \in 1..Len(emitted) :
           /\ parts_of(infile[emitted[j]])[4] = <<"+", "0", "7">>
           /\ fields_of(written[j + 1])[2] = <<"6">>
    /\ \E j \in 1..Len(emitted) :
           /\ parts_of(infile[emitted[j]])[4] = <<"0">>
           /\ fields_of(written[j + 1])[2] = <<"-", "1">>

\* the claim's reading of one predicate on a row
C3_holds(r, f) ==
    IF f[1] = "column"
    THEN /\ f[2] < Len(r)
         /\ IF f[3] = "="
            THEN \E v \in Range(f[4]) : r[f[2] + 1] = v
            ELSE \A v \in Range(f[4]) : r[f[2] + 1] # v
    ELSE LET m == parse_attributes(IF Len(r) >= 9 THEN r[9] ELSE <<>>)
         IN  IF f[3] = "="
             THEN f[2] \in keys(m) /\ \E v \in Range(f[4]) : get(m, f[2], <<>>) = v
             ELSE f[2] \notin keys(m) \/ \A v \in Range(f[4]) : get(m, f[2], <<>>) # v
\* C3: passes_filters returns true iff every predicate holds (AND across the
\* predicates, OR within the candidates of one); the result is the same for every
\* permutation of the predicates, and the empty list accepts every row.
C3_FilterEvaluation ==
    pc = "return" =>
        /\ passed = (\A i \in 1..Len(filters) : C3_holds(row, filters[i]))
        /\ \A p \in iterations(1..Len(filters)) :
               passes_filters(row, [i \in 1..Len(filters) |-> filters[p[i]]]) = passed
        /\ (filters = <<>> => passed)
\* a row accepted by two predicates, one of them '!=' on an attribute the row lacks
C3_Witness ==
    /\ pc = "return" /\ passed /\ Len(filters) = 2
    /\ \E i \in 1..2 :
           /\ filters[i][1] = "attribute" /\ filters[i][3] = "!="
           /\ Len(row) = 9
           /\ filters[i][2] \notin keys(parse_attributes(row[9]))

priority_index(k) == CHOOSE i \in 1..Len(priority_attrs) : priority_attrs[i] = k
\* C4: order_attribute_keys returns every discovered key exactly once and nothing
\* else, the keys of the priority list first in the order of that list, the other
\* keys behind them in ascending order; the result depends only on the key set.
C4_VocabularyOrdering ==
    pc = "return" =>
        /\ Range(ordered_keys) = all_keys
        /\ Len(ordered_keys) = Cardinality(all_keys)
        /\ \A p, q \in 1..Len(ordered_keys) :
               p < q =>
                   IF in_priority(ordered_keys[p])
                   THEN in_priority(ordered_keys[q]) =>
                            priority_index(ordered_keys[p]) < priority_index(ordered_keys[q])
                   ELSE /\ ~in_priority(ordered_keys[q])
                        /\ str_less(ordered_keys[p], ordered_keys[q])
        /\ \A iter \in iterations(all_keys) : order_attribute_keys(iter) = ordered_keys
        /\ (all_keys = {} => ordered_keys = <<>>)
\* four keys discovered in the reverse of their final order
C4_Witness ==
    /\ pc = "return"
    /\ discovered = << <<"a">>, <<"N", "a", "m", "e">>, <<"I", "D">>, <<"g", "e", "n", "e">> >>
    /\ ordered_keys = << <<"g", "e", "n", "e">>, <<"I", "D">>, <<"N", "a", "m", "e">>, <<"a">> >>

\* C5: parse_filter_argument fails iff the expression has no '='; otherwise the
\* operator is '!=' when '!=' occurs and '=' otherwise, the key is the text before
\* the first occurrence of the operator, the scope is Column(N) iff the key is
\* exactly 'column' followed by one digit N in 0..8 and Attribute(key) otherwise,
\* and the candidates are the text behind the operator split on ',' and trimmed.
C5_FilterCompilation ==
    pc = "return" =>
        IF ~contains(filter_str, <<"=">>)
        THEN Len(parsed) = 1 /\ parsed[1] = "ValueError"
        ELSE LET op     == IF contains(filter_str, <<"!", "=">>) THEN <<"!", "=">> ELSE <<"=">>
                 at     == find(filter_str, op)
                 key    == SubSeq(filter_str, 1, at - 1)
                 value  == SubSeq(filter_str, at + Len(op), Len(filter_str))
                 column == /\ Len(key) = 7
                           /\ SubSeq(key, 1, 6) = <<"c", "o", "l", "u", "m", "n">>
                           /\ key[7] \in Digits \ {"9"}
             IN  /\ Len(parsed) = 4
                 /\ parsed[3] = (IF Len(op) = 2 THEN "!=" ELSE "=")
                 /\ parsed[1] = (IF column THEN "column" ELSE "attribute")
                 /\ (parsed[1] = "column" => column /\ parsed[2] = digit(key[7]))
                 /\ (parsed[1] = "attribute" => parsed[2] = key)
                 /\ parsed[4] = strip_all(split(value, <<",">>))
                 /\ Len(parsed[4]) >= 1

\* C6: when a surviving row has a start that is no integer, the run ends with a
\* non-zero status and without success message, no later row is written, and the
\* output file does not keep the header and the rows written before the failure.
C6_MalformedCoordinate ==
    malformed_abort =>
        /\ exit_status # 0
        /\ stdout = <<>>
        /\ \A j \in 1..Len(emitted) : emitted[j] < line_num
        /\ written = <<>>

\* the skip rule of the claim, on the input line as it stands in the file
C7_blank(line) == \A i \in 1..Len(line) : line[i] \in Whitespace
C7_comment(line) ==
    LET ns == {i \in 1..Len(line) : line[i] \notin Whitespace}
    IN  ns # {} /\ line[Min(ns)] = "#"
C7_skipped(line) ==
    \/ C7_blank(line)
    \/ C7_comment(line)
    \/ Len(split(line, <<TAB>>)) < 9
    \/ ~passes_filters(split(line, <<TAB>>), filters)
\* C7: a line is skipped iff it is blank, a comment, has fewer than 9 tab-separated
\* fields or fails the filters; every other line yields exactly one output row, in
\* input order; the returned count is the number of rows written; the first pass
\* applies the same rule.  Stated for the runs no malformed start has aborted.
C7_RowSelection ==
    (pc = "convert" \/ (pc = "exit" /\ exit_status = 0)) =>
        /\ \A i \in 1..line_num :
               (i \in Range(emitted)) <=> ~C7_skipped(infile[i])
        /\ \A p, q \in 1..Len(emitted) : p < q => emitted[p] < emitted[q]
        /\ lines_written = Len(emitted)
        /\ Len(written) = 1 + Len(emitted)
        /\ collected = {i \in 1..Len(infile) : ~C7_skipped(infile[i])}

\* the order of the steps of a run
C8_successors(p) ==
    CASE p = "main"          -> {"parse_filters", "exit"}
      [] p = "parse_filters" -> {"first_pass", "exit"}
      [] p = "first_pass"    -> {"collect"}
      [] p = "collect"       -> {"collect", "open_output"}
      [] p = "open_output"   -> {"convert"}
      [] p = "convert"       -> {"convert", "exit"}
      [] OTHER               -> {}
C8_State ==
    /\ pc = "main" => filters = <<>>
    /\ pc \in {"main", "parse_filters"} => ~input_read /\ outfile = <<>>
    /\ pc \in {"first_pass", "collect", "open_output"} => outfile = <<>>
    /\ outfile # <<>> =>
           /\ written # <<>>
           /\ written[1] = header_line(attribute_keys)
           /\ \A i \in 2..Len(written) : written[i][1] # "#"
    /\ early_abort => exit_status # 0 /\ ~input_read /\ outfile = <<>>
C8_Step ==
    /\ pc' \in C8_successors(pc)
    /\ pc \in {"open_output", "convert"} =>
           attribute_keys' = attribute_keys /\ filters' = filters
    /\ outfile # <<>> => outfile' # <<>> /\ written'[1] = written[1]
\* C8: the steps of a run occur in the order existence check, filter compilation,
\* first pass, second pass; the output file does not exist before the first pass
\* has finished; the header is written once, before any row; vocabulary and filters
\* do not change during the second pass; a run that ends for a missing input or an
\* invalid filter has a non-zero status, has not read the input and has no output.
C8_PipelineOrdering == []C8_State /\ [][C8_Step]_vars
\* a completed run that wrote two rows behind the header
C8_Witness == pc = "exit" /\ exit_status = 0 /\ Len(written) = 3

\* the segments of attributes_str, trimmed, and those that contribute a key
C9_segments == strip_all(split(attributes_str, <<";">>))
C9_valid ==
    {i \in 1..Len(C9_segments) : C9_segments[i] # <<>> /\ "=" \in Range(C9_segments[i])}
C9_eq(i) == Min({j \in 1..Len(C9_segments[i]) : C9_segments[i][j] = "="})
C9_key(i) == SubSeq(C9_segments[i], 1, C9_eq(i) - 1)
C9_raw(i) == SubSeq(C9_segments[i], C9_eq(i) + 1, Len(C9_segments[i]))
C9_of(k) == {i \in C9_valid : C9_key(i) = k}
\* C9: parse_attributes returns the empty mapping for the empty string and for
\* '.'; otherwise the keys are the texts before the first '=' of the trimmed
\* segments that have one, each once, in the order of their first occurrence, and
\* the value of a key is the percent-decoded text behind the first '=' of its
\* last segment (a text without '%' is its own decoding).
C9_AttributeDecoding ==
    pc = "return" =>
        IF attributes_str = <<>> \/ attributes_str = <<".">>
        THEN attributes = <<>>
        ELSE /\ \A p, q \in 1..Len(attributes) : p # q => attributes[p][1] # attributes[q][1]
             /\ keys(attributes) = {C9_key(i) : i \in C9_valid}
             /\ \A p \in 1..Len(attributes) :
                    LET last == Max(C9_of(attributes[p][1]))
                    IN  /\ attributes[p][2] = unquote(C9_raw(last))
                        /\ ("%" \notin Range(C9_raw(last)) => attributes[p][2] = C9_raw(last))
             /\ \A p, q \in 1..Len(attributes) :
                    p < q => Min(C9_of(attributes[p][1])) < Min(C9_of(attributes[q][1]))
\* key a occurs first and last with different values, a decoded value in between
C9_Witness ==
    /\ pc = "return"
    /\ attributes_str = <<"a", "=", "1", ";", "%", "4", "1", "=", "%", "3", "B", ";", " ", "a", "=", "%", "4", "1", " ">>
    /\ attributes = << << <<"a">>, <<"A">> >>, << <<"%", "4", "1">>, <<";">> >> >>

\* C10: in a completed run the rows collected by the first pass are the rows
\* emitted by the second; every key of an emitted row is in the vocabulary and the
\* output field of its column is the value of the key; the field of a vocabulary
\* key the row lacks is empty; every vocabulary key occurs in some emitted row.
C10_LosslessProjection ==
    (pc = "exit" /\ exit_status = 0) =>
        /\ collected = Range(emitted)
        /\ \A j \in 1..Len(emitted) :
               LET m   == parse_attributes(parts_of(infile[emitted[j]])[9])
                   out == fields_of(written[j + 1])
               IN  /\ \A k \in keys(m) :
                          /\ in_iter(attribute_keys, k)
                          /\ out[8 + key_index(k)] = get(m, k, <<>>)
                   /\ \A i \in 1..Len(attribute_keys) :
                          attribute_keys[i] \notin keys(m) => out[8 + i] = <<>>
        /\ \A i \in 1..Len(attribute_keys) :
               \E j \in 1..Len(emitted) :
                   attribute_keys[i] \in keys(parse_attributes(parts_of(infile[emitted[j]])[9]))

=============================================================================
